---- MODULE Spec2Model ----
(***************************************************************************)
(* Map-coloring engine of clm-municipios (src/src/utils/coloring.ts):      *)
(* buildAdjacency (bounding-box pruning + shared-vertex test) and          *)
(* assignColors (degree-ordered, usage-balanced greedy coloring).          *)
(*                                                                         *)
(* JavaScript values are modelled by tagged records of one shape per kind  *)
(* of value, so that undefined, null, numbers, strings and arrays can sit  *)
(* in the same field.  Coordinates are integers counting thirds of 1e-6    *)
(* (a coordinate v stands for the number v/3 * 1e-6), so that toFixed(6)   *)
(* really rounds and never meets a tie.                                    *)
(***************************************************************************)
EXTENDS Integers, Sequences, FiniteSets, TLC

\* ------------------------------------------------------------------------
\* Bounds of the model
\* ------------------------------------------------------------------------
MaxFeatures == 3
MaxPaletteLen == 3
MaxStringLen == 7
MaxQuestions == 3
MaxSelection == 2

\* ------------------------------------------------------------------------
\* JavaScript values
\* ------------------------------------------------------------------------
\* the value `undefined` where a color string is expected (Map.get on a
\* missing key, Array.find without a match, an index past the end)
Undefined == "undefined"

JsUndefined == [t |-> "undefined", s |-> "", n |-> 0]
JsNull == [t |-> "null", s |-> "", n |-> 0]
JsString(str) == [t |-> "string", s |-> str, n |-> 0]
JsNumber(num) == [t |-> "number", s |-> "", n |-> num]

\* x ?? y : x unless x is null or undefined
Nullish(x) == x.t \in {"undefined", "null"}
Coalesce(x, y) == IF Nullish(x) THEN y ELSE x

\* String(x) for the values an id can take
String(x) ==
  CASE x.t = "string" -> x.s
    [] x.t = "number" -> ToString(x.n)
    [] x.t = "null" -> "null"
    [] OTHER -> "undefined"

\* nodes of a coordinates tree: a number, an array, or a malformed entry
NumNode(v) == [k |-> "num", n |-> v, items |-> <<>>]
ArrNode(its) == [k |-> "arr", n |-> 0, items |-> its]
StrNode == [k |-> "str", n |-> 0, items |-> <<>>]
UndefNode == [k |-> "undefined", n |-> 0, items |-> <<>>]
Pt(x, y) == ArrNode(<<NumNode(x), NumNode(y)>>)

\* ------------------------------------------------------------------------
\* Geometries of the input features
\* ------------------------------------------------------------------------
Ring(points) == ArrNode(points)
Polygon(rings) == [k |-> "object", coordinates |-> ArrNode(rings)]
MultiPolygon(polygons) ==
  [k |-> "object", coordinates |-> ArrNode([i \in 1..Len(polygons) |-> ArrNode(polygons[i])])]

\* geometry: null
NoGeometry == [k |-> "null", coordinates |-> UndefNode]
\* geometry: { type: 'Polygon' }, without coordinates
NoCoordinates == [k |-> "object", coordinates |-> UndefNode]
\* geometry: { type: 'Polygon', coordinates: [] }
EmptyCoordinates == Polygon(<<>>)
\* geometry: { type: 'Polygon', coordinates: [[['x', 'y']]] }
StringCoordinates == Polygon(<<Ring(<<ArrNode(<<StrNode, StrNode>>)>>)>>)

\* West and Mid share the vertex (3,0).  Mid and North share no vertex, but
\* (3,6) of Mid and (4,7) of North are the same point after rounding, and
\* their boxes intersect.  (0,3) of West and (1,4) of North are the same
\* point after rounding, but North's box lies above West's.  Over overlaps
\* the boxes of the other three and shares no vertex with them: its vertex
\* (-1,3) rounds to "-0.000000,0.000001", West's (0,3) to "0.000000,0.000001"
West == Polygon(<<Ring(<<Pt(0, 0), Pt(3, 0), Pt(0, 3)>>)>>)
Mid == MultiPolygon(<<<<Ring(<<Pt(3, 0), Pt(6, 0), Pt(3, 6)>>)>>>>)
North == Polygon(<<Ring(<<Pt(1, 4), Pt(4, 7)>>)>>)
Over == Polygon(<<Ring(<<Pt(-1, 3), Pt(7, 7)>>)>>)

\* a feature names its geometry; GeometryOf is the object it names
Geometries ==
  { "NoGeometry", "NoCoordinates", "EmptyCoordinates", "StringCoordinates",
    "West", "Mid", "North", "Over" }

GeometryOf(feat) ==
  CASE feat.geometry = "NoGeometry" -> NoGeometry
    [] feat.geometry = "NoCoordinates" -> NoCoordinates
    [] feat.geometry = "EmptyCoordinates" -> EmptyCoordinates
    [] feat.geometry = "StringCoordinates" -> StringCoordinates
    [] feat.geometry = "West" -> West
    [] feat.geometry = "Mid" -> Mid
    [] feat.geometry = "North" -> North
    [] OTHER -> Over

\* Math.min() and Math.max() of no arguments
Infinity == 1000000

\* ------------------------------------------------------------------------
\* coloring.ts
\* ------------------------------------------------------------------------
PALETTE ==
  << "#00A6ED", "#7ED957", "#7E57C2", "#FF6F00", "#FF5252",
     "#FFEB3B", "#E91E63", "#00BFA5", "#2962FF", "#D68600" >>

\* PALETTE of the earlier revision of coloring.ts, whose assignColors takes
\* the first free entry and falls back to a random one
PALETTE0 ==
  << "#ff6b6b", "#f59e0b", "#f97316", "#f472b6", "#60a5fa",
     "#34d399", "#7c3aed", "#06b6d4", "#fbbf24", "#a78bfa" >>

Revisions == {"balanced", "firstFree"}

\* the outcome of a call that may throw
Ok(v) == [threw |-> FALSE, called |-> TRUE, value |-> v]
Threw == [threw |-> TRUE, called |-> TRUE, value |-> <<>>]
NotCalled == [threw |-> FALSE, called |-> FALSE, value |-> <<>>]

\* typeof c[0] === 'number'
FirstIsNumber(c) ==
  c.k = "arr" /\ Len(c.items) > 0 /\ c.items[1].k = "num"

\* the pair [x, y] pushed for a node whose first entry is a number
PointOf(c) == <<c.items[1].n, c.items[2].n>>

RECURSIVE bboxCollect(_)
RECURSIVE bboxCollectFrom(_, _)
\* collect of bboxOf: no guard on c, so c[0] of undefined or null throws a
\* TypeError, `for (const sub of c)` on a number throws a TypeError, and a
\* string (whose characters are strings again) recurses until RangeError
bboxCollect(c) ==
  IF c.k # "arr" THEN Threw
  ELSE IF FirstIsNumber(c) THEN Ok(<<PointOf(c)>>)
  ELSE bboxCollectFrom(c.items, 1)

\* for (const sub of c) collect(sub), from position i on
bboxCollectFrom(items, i) ==
  IF i > Len(items) THEN Ok(<<>>)
  ELSE LET head == bboxCollect(items[i])
       IN IF head.threw THEN Threw
          ELSE LET rest == bboxCollectFrom(items, i + 1)
               IN IF rest.threw THEN Threw
                  ELSE Ok(head.value \o rest.value)

Min(S) == IF S = {} THEN Infinity ELSE CHOOSE m \in S : \A o \in S : m <= o
Max(S) == IF S = {} THEN -Infinity ELSE CHOOSE m \in S : \A o \in S : m >= o

Range(seq) == {seq[i] : i \in 1..Len(seq)}

bboxOf(feat) ==
  IF GeometryOf(feat).k # "object"
  THEN Ok([minX |-> 0, minY |-> 0, maxX |-> 0, maxY |-> 0])
  ELSE LET got == bboxCollect(GeometryOf(feat).coordinates)
       IN IF got.threw THEN Threw
          ELSE LET xs == {c[1] : c \in Range(got.value)}
                   ys == {c[2] : c \in Range(got.value)}
               IN Ok([minX |-> Min(xs), minY |-> Min(ys),
                      maxX |-> Max(xs), maxY |-> Max(ys)])

bboxesIntersect(a, b) ==
  ~(a.maxX < b.minX \/ a.minX > b.maxX \/ a.maxY < b.minY \/ a.minY > b.maxY)

\* Number.prototype.toFixed(6): the sign and the number of millionths nearest
\* to the value.  "-0.000000" and "0.000000" are different strings: a negative
\* value keeps its sign even when it rounds to zero
toFixed6(v) ==
  LET mag == IF v < 0 THEN -v ELSE v
  IN [neg |-> v < 0, millionths |-> (mag + 1) \div 3]

\* `${c[0].toFixed(6)},${c[1].toFixed(6)}`
VertexKey(c) == <<toFixed6(c[1]), toFixed6(c[2])>>

RECURSIVE shareCollect(_)
RECURSIVE shareCollectFrom(_, _)
\* collect of shareVertex: as in bboxOf, behind `if (!c) return`
shareCollect(c) ==
  IF c.k = "undefined" \/ (c.k = "num" /\ c.n = 0) THEN Ok(<<>>)
  ELSE IF c.k # "arr" THEN Threw
  ELSE IF FirstIsNumber(c) THEN Ok(<<PointOf(c)>>)
  ELSE shareCollectFrom(c.items, 1)

shareCollectFrom(items, i) ==
  IF i > Len(items) THEN Ok(<<>>)
  ELSE LET head == shareCollect(items[i])
       IN IF head.threw THEN Threw
          ELSE LET rest == shareCollectFrom(items, i + 1)
               IN IF rest.threw THEN Threw
                  ELSE Ok(head.value \o rest.value)

\* (x.geometry as any)?.coordinates
CoordinatesOf(feat) ==
  IF GeometryOf(feat).k = "object" THEN GeometryOf(feat).coordinates ELSE UndefNode

shareVertex(a, b) ==
  LET coordsA == shareCollect(CoordinatesOf(a))
      coordsB == shareCollect(CoordinatesOf(b))
  IN IF coordsA.threw \/ coordsB.threw THEN Threw
     ELSE LET setA == {VertexKey(c) : c \in Range(coordsA.value)}
          IN Ok(\E cb \in Range(coordsB.value) : VertexKey(cb) \in setA)

\* String(f.id ?? f.properties?.id ?? i), i the 0-based list position
PropertiesId(f) ==
  IF f.properties.t = "object" THEN f.properties.id ELSE JsUndefined

ResolveId(f, i) ==
  String(Coalesce(Coalesce(f.id, PropertiesId(f)), JsNumber(i)))

IdAt(fs, p) == ResolveId(fs[p], p - 1)

Ids(fs) == {IdAt(fs, p) : p \in 1..Len(fs)}

\* bboxOf and shareVertex read nothing of a feature but its geometry: their
\* results, per geometry
BboxByGeometry == [g \in Geometries |-> bboxOf([geometry |-> g])]

ShareByGeometry ==
  [a \in Geometries |->
     [b \in Geometries |-> shareVertex([geometry |-> a], [geometry |-> b])]]

\* PairTest without the bounding-box test
PairTestNoBox(fs, bboxes, p, q) == ShareByGeometry[fs[p].geometry][fs[q].geometry]

\* lines 88-91 for the pair at (1-based) positions p < q: FALSE when the
\* boxes do not intersect, else what shareVertex returns
PairTest(fs, bboxes, p, q) ==
  IF ~bboxesIntersect(bboxes[p].value, bboxes[q].value)
  THEN Ok(FALSE)
  ELSE ShareByGeometry[fs[p].geometry][fs[q].geometry]

\* AdjacencyKeys with the loop stopping one short
AdjacencyKeysButLast(ids) == {ids[p] : p \in 1..(Len(ids) - 1)}

\* lines 76-79: one entry per resolved id
AdjacencyKeys(ids) == Range(ids)

\* NeighboursOf without `adjacency.get(idB)!.add(idA)`
NeighboursOfForward(ids, tests, id) ==
  LET n == Len(ids)
  IN {ids[q] : q \in {r \in 1..n : \E p \in 1..(r - 1) :
                        ids[p] = id /\ tests[p][r].value}}

\* lines 92-93: idB joins the set of idA and idA the set of idB, for every
\* pair that passed
NeighboursOf(ids, tests, id) ==
  LET n == Len(ids)
  IN {ids[q] : q \in {r \in 1..n : \E p \in 1..(r - 1) :
                        ids[p] = id /\ tests[p][r].value}}
     \cup
     {ids[p] : p \in {r \in 1..n : \E q \in (r + 1)..n :
                        ids[q] = id /\ tests[r][q].value}}

buildAdjacency(fs) ==
  LET n == Len(fs)
      bboxes == [p \in 1..n |-> BboxByGeometry[fs[p].geometry]]
  IN IF \E p \in 1..n : bboxes[p].threw THEN Threw
     ELSE LET ids == [p \in 1..n |-> IdAt(fs, p)]
              tests == [p \in 1..n |-> [q \in (p + 1)..n |-> PairTest(fs, bboxes, p, q)]]
          IN IF \E p \in 1..n : \E q \in (p + 1)..n : tests[p][q].threw
             THEN Threw
             ELSE Ok([id \in AdjacencyKeys(ids) |-> NeighboursOf(ids, tests, id)])

\* adjacency.get(id) ?? []
NeighboursIn(graph, id) == IF id \in DOMAIN graph THEN graph[id] ELSE {}

\* the id looked up under properties first, as the map view does
ColoringIdPropertiesFirst(f, i) ==
  String(Coalesce(Coalesce(PropertiesId(f), f.id), JsNumber(i)))

\* assignColors' own String(f.id ?? f.properties?.id ?? i), line 103
ColoringId(f, i) ==
  String(Coalesce(Coalesce(f.id, PropertiesId(f)), JsNumber(i)))

\* the map view's String(feature.properties?.id ?? feature.id ?? 'sin-id'),
\* MapCanvas.tsx lines 276-278
MunicipioIdOf(f) ==
  String(Coalesce(Coalesce(PropertiesId(f), f.id), JsString("sin-id")))

uniformFill == "#c7d2fe"

\* the fill of a feature in 'colorido' mode: colorById.get(municipioId) ?? uniformFill
ColoridoFill(colors, f) ==
  IF MunicipioIdOf(f) \in DOMAIN colors /\ colors[MunicipioIdOf(f)] # Undefined
  THEN colors[MunicipioIdOf(f)]
  ELSE uniformFill

\* DegreeOf reading one entry past the end of the list
DegreeOfPadded(fs, graph) ==
  [p \in 1..(Len(fs) + 1) |->
     IF p <= Len(fs)
     THEN [id |-> IdAt(fs, p), d |-> Cardinality(NeighboursIn(graph, IdAt(fs, p)))]
     ELSE [id |-> "undefined", d |-> 0]]

\* ids.map((id) => ({ id, d: adjacency.get(id)?.size ?? 0 }))
DegreeOf(fs, graph) ==
  [p \in 1..Len(fs) |->
     [id |-> ColoringId(fs[p], p - 1),
      d |-> Cardinality(NeighboursIn(graph, ColoringId(fs[p], p - 1)))]]

\* Array.prototype.sort is stable: an entry goes behind every entry that
\* does not compare greater, so equal degrees keep their list order
RECURSIVE InsertByDegree(_, _)
InsertByDegree(sorted, e) ==
  IF sorted = <<>> THEN <<e>>
  ELSE IF Head(sorted).d >= e.d
       THEN <<Head(sorted)>> \o InsertByDegree(Tail(sorted), e)
       ELSE <<e>> \o sorted

RECURSIVE SortByDegreeUpTo(_, _)
SortByDegreeUpTo(degree, m) ==
  IF m = 0 THEN <<>>
  ELSE InsertByDegree(SortByDegreeUpTo(degree, m - 1), degree[m])

\* SortByDegree losing the last entry
SortByDegreeButLast(degree) ==
  IF Len(degree) = 0 THEN <<>> ELSE SortByDegreeUpTo(degree, Len(degree) - 1)

\* a sort that puts equal degrees in reverse list order
SortByDegreeTiesReversed(degree) ==
  SortByDegreeUpTo([i \in 1..Len(degree) |-> degree[Len(degree) + 1 - i]], Len(degree))

\* degree.sort((a, b) => b.d - a.d)
SortByDegree(degree) == SortByDegreeUpTo(degree, Len(degree))

\* Map.get(key) ?? 0
UsageOf(usage, color) == IF color \in DOMAIN usage THEN usage[color] ELSE 0

\* PALETTE.indexOf(color)
IndexOf(pal, color) ==
  IF color \in Range(pal)
  THEN (CHOOSE i \in 1..Len(pal) :
          pal[i] = color /\ \A j \in 1..(i - 1) : pal[j] # color) - 1
  ELSE -1

\* the comparator of lines 117-120: usage count, then palette index
ComesBefore(pal, usage, a, b) ==
  LET diff == UsageOf(usage, a) - UsageOf(usage, b)
  IN IF diff # 0 THEN diff < 0 ELSE IndexOf(pal, a) < IndexOf(pal, b)

\* [...PALETTE].sort(comparator): the entries by increasing (usage, index)
RECURSIVE SortPalette(_, _, _)
SortPalette(pal, usage, rest) ==
  IF rest = {} THEN <<>>
  ELSE LET first == CHOOSE i \in rest :
                      \A j \in rest \ {i} : ComesBefore(pal, usage, pal[i], pal[j])
       IN <<pal[first]>> \o SortPalette(pal, usage, rest \ {first})

\* the entries in palette order, whatever their usage
PaletteInOrder(pal, usage) == pal

\* only the entries no region has received yet
PaletteUnusedOnly(pal, usage) ==
  SelectSeq(pal, LAMBDA c : UsageOf(usage, c) = 0)

PaletteByUsage(pal, usage) == SortPalette(pal, usage, 1..Len(pal))

\* the sort done on PALETTE itself
SortedInPlace(pal, sorted) == sorted

\* PALETTE after `[...PALETTE].sort(comparator)`: the spread copies the
\* array and sort reorders the copy
PaletteAfterSort(pal, sorted) == pal

\* no neighbour color is looked at
UsedColorsNone(graph, colors, id) == {}

\* the colors of the neighbours colored so far; `if (c)` drops undefined
UsedColors(graph, colors, id) ==
  {colors[nb] : nb \in {x \in NeighboursIn(graph, id) \cap DOMAIN colors :
                          colors[x] # Undefined}}

\* Find with the negation dropped
FindUsed(paletteByUsage, used) ==
  IF \E i \in 1..Len(paletteByUsage) : paletteByUsage[i] \in used
  THEN paletteByUsage[CHOOSE i \in 1..Len(paletteByUsage) :
         /\ paletteByUsage[i] \in used
         /\ \A j \in 1..(i - 1) : paletteByUsage[j] \notin used]
  ELSE Undefined

\* paletteByUsage.find((color) => !used.has(color))
Find(paletteByUsage, used) ==
  IF \E i \in 1..Len(paletteByUsage) : paletteByUsage[i] \notin used
  THEN paletteByUsage[CHOOSE i \in 1..Len(paletteByUsage) :
         /\ paletteByUsage[i] \notin used
         /\ \A j \in 1..(i - 1) : paletteByUsage[j] \in used]
  ELSE Undefined

\* LeastUsed reading past the end of the array
PastTheEnd(paletteByUsage) == {Undefined}

\* LeastUsed taking the last entry of the sorted palette
MostUsed(paletteByUsage) ==
  {IF Len(paletteByUsage) = 0 THEN Undefined
   ELSE paletteByUsage[Len(paletteByUsage)]}

\* LeastUsed taking any entry, as Math.random would
AnyEntry(paletteByUsage) ==
  IF Len(paletteByUsage) = 0 THEN {Undefined} ELSE Range(paletteByUsage)

\* the values `chosen = paletteByUsage[0]` can take
LeastUsed(paletteByUsage) ==
  {IF Len(paletteByUsage) = 0 THEN Undefined ELSE paletteByUsage[1]}

\* earlier revision: PALETTE[Math.floor(Math.random() * PALETTE.length)]
RandomEntry(pal) == IF Len(pal) = 0 THEN {Undefined} ELSE Range(pal)

\* Map.prototype.set
MapSet(m, key, v) == [x \in DOMAIN m \cup {key} |-> IF x = key THEN v ELSE m[x]]

EmptyMap == [x \in {} |-> Undefined]

\* ------------------------------------------------------------------------
\* MapCanvas.tsx: colors by hash of an id
\* ------------------------------------------------------------------------
communityPalette ==
  << "#0ea5e9", "#f97316", "#34d399", "#a855f7", "#ef4444", "#22d3ee",
     "#fbbf24", "#c084fc", "#4ade80", "#fb7185", "#38bdf8", "#facc15" >>

\* the fill of a region without community
NoCommunityFill == "#6b7280"

\* a 32-bit integer is kept as two 16-bit halves, hi * 2^16 + lo, in two's
\* complement: the value is negative when hi >= 2^15
Half == 65536
Int32(hi, lo) == [hi |-> hi, lo |-> lo]

\* hash << 5
ShiftLeft5(h) ==
  Int32((h.hi * 32 + (h.lo * 32) \div Half) % Half, (h.lo * 32) % Half)

\* the difference computed without the borrow from the upper half
Sub32NoBorrow(a, b) ==
  Int32((a.hi - b.hi + Half) % Half, (a.lo - b.lo + Half) % Half)

\* (a - b) | 0
Sub32(a, b) ==
  LET borrow == IF a.lo < b.lo THEN 1 ELSE 0
  IN Int32((a.hi - b.hi - borrow + 2 * Half) % Half, (a.lo - b.lo + Half) % Half)

\* (a + code) | 0, code a UTF-16 code unit
AddCode32(a, code) ==
  Int32((a.hi + (a.lo + code) \div Half) % Half, (a.lo + code) % Half)

\* let hash = 0; for each code unit:
\*   hash = (hash << 5) - hash + charCodeAt(i); hash |= 0
RECURSIVE HashUpTo(_, _)
HashUpTo(codes, m) ==
  IF m = 0 THEN Int32(0, 0)
  ELSE LET hash == HashUpTo(codes, m - 1)
       IN AddCode32(Sub32(ShiftLeft5(hash), hash), codes[m])

stringHash(codes) == HashUpTo(codes, Len(codes))

IsNegative32(h) == h.hi >= Half \div 2

\* Math.abs(hash): a number from 0 to 2^31, as two halves
Abs32(h) ==
  IF IsNegative32(h)
  THEN IF h.lo = 0 THEN Int32(Half - h.hi, 0) ELSE Int32(Half - 1 - h.hi, Half - h.lo)
  ELSE h

\* stringHash of the themed map view: the loop, then `return Math.abs(hash)`
stringHashAbs(codes) == Abs32(stringHash(codes))

\* the code units the hashed strings are made of: "-", "a", "z"
CodeUnits == {45, 97, 122}

RECURSIVE StringsOfLength(_)
StringsOfLength(n) ==
  IF n = 0 THEN {<<>>}
  ELSE {Append(str, c) : str \in StringsOfLength(n - 1), c \in CodeUnits}

\* the strings of at most MaxStringLen code units
Strings == UNION {StringsOfLength(n) : n \in 0..MaxStringLen}

\* hash % k without Math.abs: in JavaScript the remainder has the sign of
\* the dividend
SignedModulo(h, k) ==
  LET a == Abs32(h)
      m == ((a.hi % k) * (Half % k) + a.lo) % k
  IN IF IsNegative32(h) THEN -m ELSE m

\* Math.abs(hash) % k
AbsModulo(h, k) ==
  LET a == Abs32(h)
  IN ((a.hi % k) * (Half % k) + a.lo) % k

\* array[index]: undefined outside the array
EntryAt(array, index) ==
  IF index \in 0..(Len(array) - 1) THEN array[index + 1] ELSE Undefined

\* the ids the map view asks a color for, with their UTF-16 code units
CharCodes ==
  ("muc-1" :> <<109, 117, 99, 45, 49>>) @@
  ("muc-2" :> <<109, 117, 99, 45, 50>>) @@
  ("muc-3" :> <<109, 117, 99, 45, 51>>) @@
  ("murcia" :> <<109, 117, 114, 99, 105, 97>>)

CommunityIds == DOMAIN CharCodes

\* the empty string, and a municipio without community
EmptyId == ""
FalsyIds == {EmptyId, Undefined}

\* a Map<string, string> keeps its entries in insertion order
NewMap == <<>>
Keys(map) == {map[i].key : i \in 1..Len(map)}
MapHas(map, key) == key \in Keys(map)
MapGet(map, key) ==
  IF MapHas(map, key)
  THEN map[CHOOSE i \in 1..Len(map) : map[i].key = key].value
  ELSE Undefined
MapPut(map, key, value) ==
  IF MapHas(map, key)
  THEN [i \in 1..Len(map) |-> IF map[i].key = key THEN [key |-> key, value |-> value]
                                                   ELSE map[i]]
  ELSE Append(map, [key |-> key, value |-> value])

\* the entry given to each new id in turn, whatever its hash
ColorByArrival(cache, id) ==
  EntryAt(communityPalette, Len(cache) % Len(communityPalette))

\* colorForCommunity on a cache miss, lines 85-92: the cache is not read
ColorOnMiss(cache, id) ==
  EntryAt(communityPalette,
          AbsModulo(stringHash(CharCodes[id]), Len(communityPalette)))

\* colorForCommunity(communityId): the color returned and the cache after
colorForCommunity(cache, id) ==
  IF id \in FalsyIds THEN [color |-> NoCommunityFill, cache |-> cache]
  ELSE IF MapHas(cache, id) THEN [color |-> MapGet(cache, id), cache |-> cache]
  ELSE LET color == ColorOnMiss(cache, id)
       IN [color |-> color, cache |-> MapPut(cache, id, color)]

\* ------------------------------------------------------------------------
\* The map view with themes: colors by hash of an id, one cache per theme
\* ------------------------------------------------------------------------
Themes == {"claro", "oscuro"}

PROVINCE_BASE_PALETTE ==
  << "#1b9e77", "#d95f02", "#7570b3", "#e7298a", "#66a61e", "#e6ab02",
     "#a6761d", "#1f78b4", "#b2df8a", "#fb9a99", "#fdbf6f", "#cab2d6",
     "#6a3d9a", "#8dd3c7", "#80b1d3", "#fdae61", "#abdda4", "#e6f598",
     "#f46d43", "#74add1" >>

\* parse(hex) of mixHexColors: the red, green and blue channels of the
\* six-digit colors of the module
ParseHex ==
  ("#1b9e77" :> <<27, 158, 119>>) @@
  ("#d95f02" :> <<217, 95, 2>>) @@
  ("#7570b3" :> <<117, 112, 179>>) @@
  ("#e7298a" :> <<231, 41, 138>>) @@
  ("#66a61e" :> <<102, 166, 30>>) @@
  ("#e6ab02" :> <<230, 171, 2>>) @@
  ("#a6761d" :> <<166, 118, 29>>) @@
  ("#1f78b4" :> <<31, 120, 180>>) @@
  ("#b2df8a" :> <<178, 223, 138>>) @@
  ("#fb9a99" :> <<251, 154, 153>>) @@
  ("#fdbf6f" :> <<253, 191, 111>>) @@
  ("#cab2d6" :> <<202, 178, 214>>) @@
  ("#6a3d9a" :> <<106, 61, 154>>) @@
  ("#8dd3c7" :> <<141, 211, 199>>) @@
  ("#80b1d3" :> <<128, 177, 211>>) @@
  ("#fdae61" :> <<253, 174, 97>>) @@
  ("#abdda4" :> <<171, 221, 164>>) @@
  ("#e6f598" :> <<230, 245, 152>>) @@
  ("#f46d43" :> <<244, 109, 67>>) @@
  ("#74add1" :> <<116, 173, 209>>) @@
  ("#0ea5e9" :> <<14, 165, 233>>) @@
  ("#f97316" :> <<249, 115, 22>>) @@
  ("#34d399" :> <<52, 211, 153>>) @@
  ("#a855f7" :> <<168, 85, 247>>) @@
  ("#ef4444" :> <<239, 68, 68>>) @@
  ("#22d3ee" :> <<34, 211, 238>>) @@
  ("#fbbf24" :> <<251, 191, 36>>) @@
  ("#c084fc" :> <<192, 132, 252>>) @@
  ("#4ade80" :> <<74, 222, 128>>) @@
  ("#fb7185" :> <<251, 113, 133>>) @@
  ("#38bdf8" :> <<56, 189, 248>>) @@
  ("#facc15" :> <<250, 204, 21>>) @@
  ("#cbd5f5" :> <<203, 213, 245>>) @@
  ("#ffffff" :> <<255, 255, 255>>) @@
  ("#dbeafe" :> <<219, 234, 254>>)

\* a color string: `#rrggbb` by its channels, or the rgba() string of the
\* dark theme by its channels and alpha
Hex(r, g, b) == <<r, g, b, "opaque">>
NoDivisionDark == <<148, 163, 184, "0.65">>
NoProvinceLight == Hex(100, 116, 139)
NoCommunityLight == Hex(107, 114, 128)

\* blend(a, b) = Math.round(a * (1 - w) + b * w), for a weight of
\* percent / 100; Math.round takes a half up
Blend(a, b, percent) == (a * (100 - percent) + b * percent + 50) \div 100

\* mixHexColors(base, mixWith, weight), the weights of the module being
\* within [0, 1]
mixHexColors(base, mixWith, percent) ==
  LET baseRgb == ParseHex[base]
      mixRgb == ParseHex[mixWith]
  IN Hex(Blend(baseRgb[1], mixRgb[1], percent),
         Blend(baseRgb[2], mixRgb[2], percent),
         Blend(baseRgb[3], mixRgb[3], percent))

\* adaptColorForTheme(color, theme), for the entries of communityPalette,
\* which all start with '#'
adaptColorForTheme(color, theme) ==
  mixHexColors(color, IF theme = "oscuro" THEN "#dbeafe" ELSE "#ffffff",
               IF theme = "oscuro" THEN 30 ELSE 10)

\* the ids the themed map view asks colors for
DivisionIds == {"muc-1", "murcia"}

\* one Map per theme
NewCaches == [theme \in Themes |-> NewMap]

\* colorForProvince on a cache miss, part_006 lines 205-210
ProvinceOnMiss(id, theme) ==
  LET base == EntryAt(PROVINCE_BASE_PALETTE,
                      AbsModulo(stringHash(CharCodes[id]), Len(PROVINCE_BASE_PALETTE)))
  IN IF theme = "oscuro" THEN mixHexColors(base, "#cbd5f5", 38)
     ELSE mixHexColors(base, "#ffffff", 10)

\* colorForCommunity on a cache miss, part_006 lines 228-230
CommunityOnMiss(id, theme) ==
  adaptColorForTheme(
    EntryAt(communityPalette, AbsModulo(stringHash(CharCodes[id]), Len(communityPalette))),
    theme)

\* one cache for both themes: an entry of either theme answers the call
ThroughAnyTheme(caches, id, theme, computed) ==
  IF \E t \in Themes : MapHas(caches[t], id)
  THEN [color |-> MapGet(caches[CHOOSE t \in Themes : MapHas(caches[t], id)], id),
        caches |-> caches]
  ELSE [color |-> computed,
        caches |-> [caches EXCEPT ![theme] = MapPut(caches[theme], id, computed)]]

\* cache = caches[theme]; has / get / set on it
ThroughCache(caches, id, theme, computed) ==
  IF MapHas(caches[theme], id)
  THEN [color |-> MapGet(caches[theme], id), caches |-> caches]
  ELSE [color |-> computed,
        caches |-> [caches EXCEPT ![theme] = MapPut(caches[theme], id, computed)]]

\* colorForProvince(provinciaId, theme): the color returned and the
\* province caches after
colorForProvinceThemed(caches, id, theme) ==
  IF id \in FalsyIds
  THEN [color |-> IF theme = "oscuro" THEN NoDivisionDark ELSE NoProvinceLight,
        caches |-> caches]
  ELSE ThroughCache(caches, id, theme, ProvinceOnMiss(id, theme))

\* colorForCommunity(communityId, theme): the color returned and the
\* community caches after
colorForCommunityThemed(caches, id, theme) ==
  IF id \in FalsyIds
  THEN [color |-> IF theme = "oscuro" THEN NoDivisionDark ELSE NoCommunityLight,
        caches |-> caches]
  ELSE ThroughCache(caches, id, theme, CommunityOnMiss(id, theme))

\* ------------------------------------------------------------------------
\* The game store (zustand): quiz state
\* ------------------------------------------------------------------------
\* the municipalities of the map, by id
MunicipioNames == << "albacete", "cuenca", "toledo", "hellin", "talavera" >>
Municipios == {MunicipioNames[i] : i \in 1..MaxQuestions}

\* the municipalities of a set, in the order of the data
RECURSIVE InDataOrder(_, _)
InDataOrder(set, m) ==
  IF m = 0 THEN <<>>
  ELSE InDataOrder(set, m - 1) \o (IF MunicipioNames[m] \in set THEN <<MunicipioNames[m]>> ELSE <<>>)

\* the lists of municipalities startQuiz is called with: the municipalities
\* of the map that pass a filter
MunicipioLists == {InDataOrder(set, MaxQuestions) : set \in SUBSET Municipios}

\* shuffle(array): some permutation of the array
Shuffles(array) ==
  {list \in [1..Len(array) -> Range(array)] : Range(list) = Range(array)}

\* the shuffles of each list startQuiz is called with
ShufflesByList == [list \in MunicipioLists |-> Shuffles(list)]

\* an optional Set, an optional celebration
NoSet == [defined |-> FALSE, members |-> {}]
SetOf(members) == [defined |-> TRUE, members |-> members]
NoCelebration == [defined |-> FALSE, municipioId |-> Undefined, key |-> Undefined]

\* Date.now() at the moment of a correct answer: the store only keeps it
Times == {"now"}

\* createInitialQuizState()
createInitialQuizState ==
  [ dificultad |-> "estudio", preguntas |-> <<>>, activeIndex |-> -1,
    aciertos |-> 0, fallos |-> 0, completado |-> FALSE, mapaEstados |-> EmptyMap,
    correctBlinkId |-> Undefined, celebration |-> NoCelebration,
    lockedMunicipios |-> NoSet ]

\* set(partial): the fields of partial replace those of the state
Merge(state, partial) ==
  [f \in DOMAIN state |-> IF f \in DOMAIN partial THEN partial[f] ELSE state[f]]

\* the question startQuiz makes of a municipality
QuestionOf(municipio) ==
  [ id |-> <<"q-", municipio>>, municipioId |-> municipio,
    estado |-> "pendiente", respuesta |-> Undefined ]

\* startQuiz({ dificultad, municipios }), pool the shuffled municipios
startQuiz(state, dificultad, municipios, pool) ==
  IF Len(municipios) = 0 THEN state
  ELSE LET limit == IF dificultad = "reto-10"
                    THEN (IF Len(pool) < 10 THEN Len(pool) ELSE 10)
                    ELSE Len(pool)
           preguntas == [i \in 1..limit |-> QuestionOf(pool[i])]
       IN Merge(state,
            [ modo |-> "reto", dificultad |-> dificultad, preguntas |-> preguntas,
              activeIndex |-> IF Len(preguntas) # 0 THEN 0 ELSE -1,
              aciertos |-> 0, fallos |-> 0,
              completado |-> (Len(preguntas) = 0),
              mapaEstados |-> EmptyMap,
              correctBlinkId |-> Undefined, celebration |-> NoCelebration,
              lockedMunicipios |-> IF state.dificultadReto = "facil" THEN SetOf({}) ELSE NoSet ])

\* array[index] of a JavaScript array of questions: undefined out of range
HasIndex(array, index) == index \in 0..(Len(array) - 1)

\* the early returns of marcarMunicipio, lines 295-297
NothingToAnswer(state) ==
  \/ Len(state.preguntas) = 0
  \/ state.activeIndex < 0
  \/ state.completado
  \/ state.preguntas[state.activeIndex + 1].estado # "pendiente"

FindNoFurther(preguntas, activeIndex) ==
  LET later == {idx \in 0..(Len(preguntas) - 1) :
                  idx > activeIndex /\ preguntas[idx + 1].estado = "pendiente"}
  IN IF later = {} THEN -1 ELSE activeIndex

FindLastPending(preguntas, activeIndex) ==
  LET later == {idx \in 0..(Len(preguntas) - 1) :
                  idx > activeIndex /\ preguntas[idx + 1].estado = "pendiente"}
  IN IF later = {} THEN -1 ELSE CHOOSE idx \in later : \A o \in later : idx >= o

\* updatedPreguntas.findIndex((q, idx) => idx > activeIndex && q.estado === 'pendiente')
FindNextPending(preguntas, activeIndex) ==
  LET later == {idx \in 0..(Len(preguntas) - 1) :
                  idx > activeIndex /\ preguntas[idx + 1].estado = "pendiente"}
  IN IF later = {} THEN -1 ELSE CHOOSE idx \in later : \A o \in later : idx <= o

\* the status written for the clicked municipality by a wrong answer,
\* lines 318-319: first the click, then the target
MapAfterWrong(mapa, clicked, target) ==
  MapSet(MapSet(mapa, clicked, "fallida"), target, "correcta")

CountEveryAnswer(count, hit) == count + 1

\* nuevosAciertos += 1 / nuevosFallos += 1, each in its own branch
CountAfter(count, hit) == IF hit THEN count + 1 ELSE count

\* marcarMunicipio(municipioId), lines 299-355, behind the early returns
Answer(state, municipioId, now) ==
  LET pregunta == state.preguntas[state.activeIndex + 1]
      right == municipioId = pregunta.municipioId
      estado == IF right THEN "correcta" ELSE "fallida"
      updatedMapa == IF right THEN MapSet(state.mapaEstados, pregunta.municipioId, "correcta")
                     ELSE MapAfterWrong(state.mapaEstados, municipioId, pregunta.municipioId)
      updatedPreguntas ==
        [state.preguntas EXCEPT ![state.activeIndex + 1] =
           [pregunta EXCEPT !.estado = estado, !.respuesta = municipioId]]
      nextIndex == FindNextPending(updatedPreguntas, state.activeIndex)
      newCompleted == nextIndex = -1
      locked == IF state.lockedMunicipios.defined THEN state.lockedMunicipios.members ELSE {}
      updatedLocked ==
        IF state.dificultadReto = "facil"
        THEN locked \cup {pregunta.municipioId} \cup (IF right THEN {} ELSE {municipioId})
        ELSE locked
  IN Merge(state,
       [ preguntas |-> updatedPreguntas,
         activeIndex |-> IF newCompleted THEN -1 ELSE nextIndex,
         aciertos |-> CountAfter(state.aciertos, right),
         fallos |-> CountAfter(state.fallos, ~right),
         completado |-> newCompleted,
         mapaEstados |-> updatedMapa,
         correctBlinkId |-> IF right THEN Undefined ELSE pregunta.municipioId,
         celebration |-> IF right
                         THEN [defined |-> TRUE, municipioId |-> pregunta.municipioId, key |-> now]
                         ELSE NoCelebration,
         lockedMunicipios |-> IF state.dificultadReto = "facil" THEN SetOf(updatedLocked)
                              ELSE NoSet ])

marcarMunicipioClearsFeedback(state, municipioId, now) ==
  IF NothingToAnswer(state)
  THEN Merge(state, [correctBlinkId |-> Undefined, celebration |-> NoCelebration])
  ELSE Answer(state, municipioId, now)

\* marcarMunicipio(municipioId): the early returns leave without a set()
marcarMunicipio(state, municipioId, now) ==
  IF NothingToAnswer(state) THEN state ELSE Answer(state, municipioId, now)

\* resetQuiz()
resetQuiz(state) == Merge(state, createInitialQuizState)

\* setModo(modo)
setModo(state, modo) ==
  IF modo = "estudio"
  THEN Merge(Merge(state, [modo |-> modo]), createInitialQuizState)
  ELSE Merge(state, [modo |-> modo])

\* setDificultadReto(dificultad)
setDificultadReto(state, dificultad) ==
  Merge(state,
    [ dificultadReto |-> dificultad,
      lockedMunicipios |->
        IF dificultad = "facil"
        THEN SetOf({state.preguntas[i].municipioId :
                      i \in {j \in 1..Len(state.preguntas) :
                               state.preguntas[j].estado # "pendiente"}})
        ELSE NoSet ])

\* the first revision of the store (gameStore.ts), which generates no
\* questions yet and keeps the active question in `activa`
StoreRevisions == {"first", "quiz"}

\* startQuiz(dificultad), gameStore.ts lines 31-40
startQuizFirst(state, dificultad) ==
  LET generated == <<>>
  IN Merge(state, [ modo |-> "preguntas", dificultad |-> dificultad,
                    preguntas |-> generated,
                    activa |-> IF Len(generated) > 0 THEN generated[1] ELSE Undefined ])

\* marcarMunicipio(municipioId), gameStore.ts lines 41-54
marcarMunicipioFirst(state, municipioId) ==
  IF state.activa = Undefined THEN state
  ELSE LET updated ==
             [i \in 1..Len(state.preguntas) |->
                IF state.preguntas[i].id # state.activa.id THEN state.preguntas[i]
                ELSE [state.preguntas[i] EXCEPT
                        !.estado = IF state.preguntas[i].municipioId = municipioId
                                   THEN "correcta" ELSE "fallida",
                        !.respuesta = municipioId]]
           pending == {i \in 1..Len(updated) : updated[i].estado = "pendiente"}
           siguiente == IF pending = {} THEN Undefined
                        ELSE updated[CHOOSE i \in pending : \A o \in pending : i <= o]
       IN Merge(state, [preguntas |-> updated, activa |-> siguiente])

\* ------------------------------------------------------------------------
\* The game store: selection of communities and provinces
\* ------------------------------------------------------------------------
\* provincesByCommunity of spainDivisions.ts, for three communities
provincesByCommunity ==
  ("castilla-la-mancha" :> <<"albacete", "toledo">>) @@
  ("extremadura" :> <<"badajoz", "caceres">>) @@
  ("madrid" :> <<"madrid">>)

Communities == DOMAIN provincesByCommunity
Provinces == UNION {Range(provincesByCommunity[c]) : c \in Communities}

\* provinceById.get(provinciaId)?.comunidadId
CommunityOfProvince(provinciaId) ==
  IF provinciaId \in Provinces
  THEN CHOOSE c \in Communities : provinciaId \in Range(provincesByCommunity[c])
  ELSE Undefined

DEFAULT_COMMUNITY_ID == "castilla-la-mancha"
defaultProvinceSelection == provincesByCommunity[DEFAULT_COMMUNITY_ID]

\* ids no division of the data has
UnknownCommunity == "atlantida"
UnknownProvince == "gondor"

\* provincesByCommunity.get(comunidadId) ?? []
ProvincesOf(comunidadId) ==
  IF comunidadId \in Communities THEN provincesByCommunity[comunidadId] ELSE <<>>

\* array.includes(value)
Includes(array, value) == value \in Range(array)

\* array.filter(value => value !== removed)
Without(array, removed) == SelectSeq(array, LAMBDA value : value # removed)

\* Array.from(new Set(values)): the first occurrence of each value, in order
RECURSIVE UniqueUpTo(_, _)
UniqueUpTo(values, m) ==
  IF m = 0 THEN <<>>
  ELSE LET before == UniqueUpTo(values, m - 1)
       IN IF Includes(before, values[m]) THEN before ELSE Append(before, values[m])

unique(values) == UniqueUpTo(values, Len(values))

\* communities.flatMap(comunidadId => provincesByCommunity.get(comunidadId) ?? [])
RECURSIVE ProvincesOfAll(_, _)
ProvincesOfAll(communities, m) ==
  IF m = 0 THEN <<>>
  ELSE ProvincesOfAll(communities, m - 1) \o ProvincesOf(communities[m])

\* the communities of a list of provinces, unknown provinces dropped
RECURSIVE CommunitiesOfAll(_, _)
CommunitiesOfAll(provinces, m) ==
  IF m = 0 THEN <<>>
  ELSE LET before == CommunitiesOfAll(provinces, m - 1)
           comunidadId == CommunityOfProvince(provinces[m])
       IN IF comunidadId = Undefined THEN before ELSE Append(before, comunidadId)

ensureCommunitiesFromProvinces(provinces) ==
  LET communitiesFromProvinces == CommunitiesOfAll(provinces, Len(provinces))
  IN unique(IF Len(communitiesFromProvinces) # 0 THEN communitiesFromProvinces
            ELSE <<DEFAULT_COMMUNITY_ID>>)

setSelectedCommunities(state, communities) ==
  LET validCommunities == IF Len(communities) # 0 THEN communities
                          ELSE <<DEFAULT_COMMUNITY_ID>>
      newProvinces == unique(ProvincesOfAll(validCommunities, Len(validCommunities)))
  IN Merge(state,
       [ selectedCommunities |-> validCommunities,
         selectedProvinces |-> IF Len(newProvinces) # 0 THEN newProvinces
                               ELSE defaultProvinceSelection ])

KeepsOwnProvinces(selectedProvinces, provincesToRemove) == selectedProvinces

\* selectedProvinces.filter(provinciaId => !provincesToRemove.includes(provinciaId))
FilteredProvinces(selectedProvinces, provincesToRemove) ==
  SelectSeq(selectedProvinces, LAMBDA provinciaId : ~Includes(provincesToRemove, provinciaId))

toggleCommunity(state, communityId) ==
  LET currentCommunities == unique(state.selectedCommunities)
  IN IF Includes(currentCommunities, communityId)
     THEN IF Len(currentCommunities) = 1 THEN state
          ELSE LET remainingCommunities == Without(currentCommunities, communityId)
                   filteredProvinces ==
                     FilteredProvinces(state.selectedProvinces, ProvincesOf(communityId))
               IN Merge(state,
                    [ selectedCommunities |-> remainingCommunities,
                      selectedProvinces |->
                        IF Len(filteredProvinces) > 0 THEN filteredProvinces
                        ELSE IF remainingCommunities[1] \in Communities
                             THEN provincesByCommunity[remainingCommunities[1]]
                             ELSE filteredProvinces ])
     ELSE Merge(state,
            [ selectedCommunities |-> Append(state.selectedCommunities, communityId),
              selectedProvinces |->
                unique(state.selectedProvinces \o ProvincesOf(communityId)) ])

toggleProvince(state, provinciaId) ==
  LET comunidadId == CommunityOfProvince(provinciaId)
  IN IF comunidadId = Undefined THEN state
     ELSE IF Includes(state.selectedProvinces, provinciaId)
     THEN IF Len(state.selectedProvinces) = 1 THEN state
          ELSE LET updatedProvinces == Without(state.selectedProvinces, provinciaId)
                   stillHasProvince ==
                     \E i \in 1..Len(updatedProvinces) :
                       Includes(ProvincesOf(comunidadId), updatedProvinces[i])
                   updatedCommunities ==
                     IF stillHasProvince THEN state.selectedCommunities
                     ELSE Without(state.selectedCommunities, comunidadId)
               IN Merge(state,
                    [ selectedProvinces |-> updatedProvinces,
                      selectedCommunities |->
                        IF Len(updatedCommunities) # 0 THEN updatedCommunities
                        ELSE ensureCommunitiesFromProvinces(updatedProvinces) ])
     ELSE Merge(state,
            [ selectedProvinces |-> unique(Append(state.selectedProvinces, provinciaId)),
              selectedCommunities |->
                IF Includes(state.selectedCommunities, comunidadId)
                THEN state.selectedCommunities
                ELSE Append(state.selectedCommunities, comunidadId) ])

setSelectedProvinces(state, provincias) ==
  IF Len(provincias) = 0 THEN state
  ELSE Merge(state,
         [ selectedProvinces |-> unique(provincias),
           selectedCommunities |-> ensureCommunitiesFromProvinces(provincias) ])

\* the lists a caller can pass: up to MaxSelection ids, repeats included
ListsOver(ids) == UNION {[1..n -> ids] : n \in 0..MaxSelection}

\* the state the store is created with
InitialStore ==
  Merge([ modo |-> "estudio", dificultadReto |-> "dificil",
          selectedCommunities |-> <<DEFAULT_COMMUNITY_ID>>,
          selectedProvinces |-> defaultProvinceSelection,
          dificultad |-> "estudio", preguntas |-> <<>>, activeIndex |-> -1,
          aciertos |-> 0, fallos |-> 0, completado |-> FALSE, mapaEstados |-> EmptyMap,
          correctBlinkId |-> Undefined, celebration |-> NoCelebration,
          lockedMunicipios |-> NoSet, activa |-> Undefined ],
        createInitialQuizState)

\* ------------------------------------------------------------------------
\* Inputs: feature lists and palettes
\* ------------------------------------------------------------------------
Names == <<"a", "b", "c", "d", "e">>

Props(v) == [t |-> "object", id |-> v]
NoProps(kind) == [t |-> kind, id |-> JsUndefined]

\* how the features of one list carry their ids: "unique" gives every
\* position its own id, through each link of the fallback chain in turn;
\* "clash" makes neighbours in the list resolve to the same id
IdSchemes == {"unique", "clash"}

\* the id and properties of the feature at (1-based) position p
IdFields(scheme, p) ==
  IF scheme = "unique"
  THEN CASE p % 4 = 1 ->
              [id |-> JsString(Names[p]), properties |-> Props(JsString("z"))]
         [] p % 4 = 2 ->
              [id |-> JsNull, properties |-> Props(JsString(Names[p]))]
         [] p % 4 = 3 ->
              [id |-> JsUndefined, properties |-> NoProps("null")]
         [] OTHER ->
              [id |-> JsNumber(10 * p), properties |-> Props(JsUndefined)]
  ELSE CASE p = 1 -> [id |-> JsNumber(1), properties |-> NoProps("undefined")]
         [] p = 2 -> [id |-> JsUndefined, properties |-> Props(JsUndefined)]
         [] p % 2 = 1 -> [id |-> JsString("a"), properties |-> Props(JsNull)]
         [] OTHER -> [id |-> JsNull, properties |-> Props(JsString("a"))]

Feature(scheme, p, geom) ==
  [id |-> IdFields(scheme, p).id,
   properties |-> IdFields(scheme, p).properties,
   geometry |-> geom]

FeatureLists ==
  UNION {{[p \in 1..n |-> Feature(scheme, p, geoms[p])] :
            geoms \in [1..n -> Geometries], scheme \in IdSchemes} :
         n \in 0..MaxFeatures}

\* the palette is the first `len` entries of the revision's PALETTE
PaletteOf(rev, len) == SubSeq(IF rev = "balanced" THEN PALETTE ELSE PALETTE0, 1, len)

\* ------------------------------------------------------------------------
\* State
\* ------------------------------------------------------------------------
VARIABLES
  revision,    \* which revision of coloring.ts is loaded
  features,    \* the feature list handed to buildAdjacency / assignColors
  palette,     \* the entries of PALETTE
  pc,          \* "idle", or "loop" inside the for loop of assignColors
  adjacency,   \* what the last run of buildAdjacency returned
  degree,      \* assignColors: the sorted degree list
  done,        \* assignColors: how many entries of degree have been colored
  colorById,   \* assignColors: colorById
  usageCount,  \* assignColors: usageCount
  outcome,     \* how the last call of assignColors ended
  returned     \* the maps assignColors has returned for this input

VARIABLES
  communityColorCache,  \* MapCanvas.tsx: communityColorCache, one per load of the page
  lastColor             \* the last call of colorForCommunity and what it returned

VARIABLES
  hashedValue,  \* the string handed to stringHash
  hashResult    \* what stringHash returned for it

VARIABLES
  provinceColorCache,        \* part_006: provinceColorCache, one Map per theme
  themedCommunityColorCache, \* part_006: communityColorCache, one Map per theme
  lastThemed                 \* the last themed call and what it returned

VARIABLES
  storeRevision,  \* which revision of the game store is loaded
  store           \* the state of the game store

coloringVars ==
  << revision, features, palette, pc, adjacency, degree, done, colorById, usageCount,
     outcome, returned >>

hashVars == << communityColorCache, lastColor >>

stringVars == << hashedValue, hashResult >>

storeVars == << storeRevision, store >>

themeVars == << provinceColorCache, themedCommunityColorCache, lastThemed >>

vars == << coloringVars, hashVars, stringVars, storeVars, themeVars >>

\* what an action of one part of the program leaves alone
outsideColoring == << hashVars, stringVars, storeVars, themeVars >>
outsideCaches == << coloringVars, stringVars, storeVars, themeVars >>
outsideStringHash == << coloringVars, hashVars, storeVars, themeVars >>
outsideStore == << coloringVars, hashVars, stringVars, storeRevision, themeVars >>
outsideThemes == << coloringVars, hashVars, stringVars, storeVars >>

\* the store as created, in the revision with the quiz
InitStore ==
  /\ storeRevision = "quiz"
  /\ store = InitialStore

NotHashed == [returned |-> FALSE, hash |-> Int32(0, 0)]

\* no string has been hashed
InitStrings ==
  /\ hashedValue = <<>>
  /\ hashResult = NotHashed

\* assignColors has not been called, on an empty list
InitColoringIdle ==
  /\ revision = "balanced"
  /\ features = <<>>
  /\ palette = PALETTE
  /\ pc = "idle"
  /\ adjacency = NotCalled
  /\ degree = <<>>
  /\ done = 0
  /\ colorById = EmptyMap
  /\ usageCount = EmptyMap
  /\ outcome = "none"
  /\ returned = {}

\* the module-level cache is created anew by every load of the page
Loads == {"first", "second"}

NoCall == [called |-> FALSE, id |-> Undefined, color |-> Undefined]

NoThemedCall ==
  [called |-> FALSE, division |-> Undefined, id |-> Undefined, theme |-> Undefined,
   color |-> Undefined]

\* the caches of a module just loaded
InitCaches ==
  /\ communityColorCache = [l \in Loads |-> NewMap]
  /\ lastColor = NoCall
  /\ provinceColorCache = NewCaches
  /\ themedCommunityColorCache = NewCaches
  /\ lastThemed = NoThemedCall

Init ==
  /\ revision \in Revisions
  /\ features \in FeatureLists
  /\ palette \in {PaletteOf(revision, len) : len \in 0..MaxPaletteLen}
  /\ pc = "idle"
  /\ adjacency = NotCalled
  /\ degree = <<>>
  /\ done = 0
  /\ colorById = EmptyMap
  /\ usageCount = EmptyMap
  /\ outcome = "none"
  /\ returned = {}
  /\ InitCaches
  /\ InitStrings
  /\ InitStore

\* a caller runs buildAdjacency(features)
BuildAdjacencyCall ==
  /\ pc = "idle"
  /\ adjacency' = buildAdjacency(features)
  /\ UNCHANGED << revision, features, palette, pc, degree, done, colorById, usageCount,
                  outcome, returned >>
  /\ UNCHANGED outsideColoring

\* assignColors, lines 102-108: up to the for loop
AssignColorsBegin ==
  /\ pc = "idle"
  /\ LET adj == buildAdjacency(features)
     IN /\ adjacency' = adj
        /\ IF adj.threw
           THEN /\ outcome' = "threw"
                /\ pc' = "idle"
                /\ degree' = <<>>
                /\ usageCount' = EmptyMap
           ELSE /\ outcome' = "running"
                /\ pc' = "loop"
                /\ degree' = SortByDegree(DegreeOf(features, adj.value))
                /\ usageCount' = IF revision = "balanced"
                                 THEN [c \in Range(palette) |-> 0]
                                 ELSE EmptyMap
  /\ done' = 0
  /\ colorById' = EmptyMap
  /\ UNCHANGED << revision, features, palette, returned >>
  /\ UNCHANGED outsideColoring

\* one iteration of `for (const { id } of degree)`, lines 110-131
AssignColorsStep ==
  /\ revision = "balanced"
  /\ pc = "loop"
  /\ done < Len(degree)
  /\ LET id == degree[done + 1].id
         used == UsedColors(adjacency.value, colorById, id)
         paletteByUsage == PaletteByUsage(palette, usageCount)
         found == Find(paletteByUsage, used)
     IN \E chosen \in (IF found = Undefined
                       THEN LeastUsed(paletteByUsage)
                       ELSE {found}) :
          /\ colorById' = MapSet(colorById, id, chosen)
          /\ usageCount' = MapSet(usageCount, chosen, UsageOf(usageCount, chosen) + 1)
        /\ palette' = PaletteAfterSort(palette, paletteByUsage)
  /\ done' = done + 1
  /\ UNCHANGED << revision, features, pc, adjacency, degree, outcome, returned >>
  /\ UNCHANGED outsideColoring

\* the same iteration in the earlier revision: the first free entry of
\* PALETTE, or a random entry when none is free
AssignColorsStepFirstFree ==
  /\ revision = "firstFree"
  /\ pc = "loop"
  /\ done < Len(degree)
  /\ LET id == degree[done + 1].id
         used == UsedColors(adjacency.value, colorById, id)
         found == Find(palette, used)
     IN \E chosen \in (IF found = Undefined THEN RandomEntry(palette) ELSE {found}) :
          colorById' = MapSet(colorById, id, chosen)
  /\ done' = done + 1
  /\ UNCHANGED << revision, features, palette, pc, adjacency, degree, usageCount,
                  outcome, returned >>
  /\ UNCHANGED outsideColoring

\* return colorById, line 133
AssignColorsReturn ==
  /\ pc = "loop"
  /\ done = Len(degree)
  /\ pc' = "idle"
  /\ outcome' = "ok"
  /\ returned' = returned \cup {colorById}
  /\ UNCHANGED << revision, features, palette, adjacency, degree, done, colorById, usageCount >>
  /\ UNCHANGED outsideColoring

Next ==
  \/ BuildAdjacencyCall
  \/ AssignColorsBegin
  \/ AssignColorsStep
  \/ AssignColorsStepFirstFree
  \/ AssignColorsReturn

Spec == Init /\ [][Next]_vars

\* the map view, in one load of the page, asks the color of a community
ColorForCommunityCall ==
  \E load \in Loads : \E id \in CommunityIds \cup FalsyIds :
    LET result == colorForCommunity(communityColorCache[load], id)
    IN /\ communityColorCache' = [communityColorCache EXCEPT ![load] = result.cache]
       /\ lastColor' = [called |-> TRUE, id |-> id, color |-> result.color]
       /\ UNCHANGED outsideCaches

\* the map view alone, colored by community
InitHash ==
  /\ InitColoringIdle
  /\ InitCaches
  /\ InitStrings
  /\ InitStore

NextHash == ColorForCommunityCall

SpecHash == InitHash /\ [][NextHash]_vars

\* the themed map view asks the color of a province
ColorForProvinceCall ==
  \E id \in DivisionIds \cup FalsyIds : \E theme \in Themes :
    LET result == colorForProvinceThemed(provinceColorCache, id, theme)
    IN /\ provinceColorCache' = result.caches
       /\ lastThemed' = [called |-> TRUE, division |-> "province", id |-> id,
                         theme |-> theme, color |-> result.color]
       /\ UNCHANGED << themedCommunityColorCache, outsideThemes >>

\* the themed map view asks the color of a community
ColorForThemedCommunityCall ==
  \E id \in DivisionIds \cup FalsyIds : \E theme \in Themes :
    LET result == colorForCommunityThemed(themedCommunityColorCache, id, theme)
    IN /\ themedCommunityColorCache' = result.caches
       /\ lastThemed' = [called |-> TRUE, division |-> "community", id |-> id,
                         theme |-> theme, color |-> result.color]
       /\ UNCHANGED << provinceColorCache, outsideThemes >>

\* the themed map view alone: calls in any order, the theme switching freely
InitThemes ==
  /\ InitColoringIdle
  /\ InitCaches
  /\ InitStrings
  /\ InitStore

NextThemes ==
  \/ ColorForProvinceCall
  \/ ColorForThemedCommunityCall

SpecThemes == InitThemes /\ [][NextThemes]_vars

\* stringHash(value) is called and returns
StringHashCall ==
  /\ ~hashResult.returned
  /\ hashResult' = [returned |-> TRUE, hash |-> stringHashAbs(hashedValue)]
  /\ UNCHANGED hashedValue
  /\ UNCHANGED outsideStringHash

\* stringHash alone, on every string of the bounded set
InitStringHash ==
  /\ InitColoringIdle
  /\ InitCaches
  /\ hashedValue \in Strings
  /\ hashResult = NotHashed
  /\ InitStore

NextStringHash == StringHashCall

SpecStringHash == InitStringHash /\ [][NextStringHash]_vars

\* the player starts a quiz
StartQuizCall ==
  /\ storeRevision = "quiz"
  /\ \E dificultad \in {"reto-10", "reto-total"} :
    \E municipios \in MunicipioLists : \E pool \in ShufflesByList[municipios] :
      /\ store' = startQuiz(store, dificultad, municipios, pool)
      /\ UNCHANGED outsideStore

\* the player clicks a municipality of the map
MarcarMunicipioCall ==
  /\ storeRevision = "quiz"
  /\ \E municipioId \in Municipios : \E now \in Times :
       /\ store' = marcarMunicipio(store, municipioId, now)
       /\ UNCHANGED outsideStore

\* the same operations in the first revision of the store
StartQuizFirstCall ==
  /\ storeRevision = "first"
  /\ \E dificultad \in {"estudio", "reto-10", "reto-total"} :
       /\ store' = startQuizFirst(store, dificultad)
       /\ UNCHANGED outsideStore

MarcarMunicipioFirstCall ==
  /\ storeRevision = "first"
  /\ \E municipioId \in Municipios :
       /\ store' = marcarMunicipioFirst(store, municipioId)
       /\ UNCHANGED outsideStore

\* setModo(modo), gameStore.ts line 55
SetModoFirstCall ==
  /\ storeRevision = "first"
  /\ \E modo \in {"estudio", "preguntas"} :
       /\ store' = Merge(store, [modo |-> modo])
       /\ UNCHANGED outsideStore

ResetQuizCall ==
  /\ storeRevision = "quiz"
  /\ store' = resetQuiz(store)
  /\ UNCHANGED outsideStore

SetModoCall ==
  /\ storeRevision = "quiz"
  /\ \E modo \in {"estudio", "reto"} :
       /\ store' = setModo(store, modo)
       /\ UNCHANGED outsideStore

SetDificultadRetoCall ==
  /\ storeRevision = "quiz"
  /\ \E dificultad \in {"facil", "dificil"} :
       /\ store' = setDificultadReto(store, dificultad)
       /\ UNCHANGED outsideStore

\* the store alone, driven by the quiz operations
InitQuiz ==
  /\ InitColoringIdle
  /\ InitCaches
  /\ InitStrings
  /\ storeRevision \in StoreRevisions
  /\ store = InitialStore

NextQuiz ==
  \/ StartQuizCall
  \/ MarcarMunicipioCall
  \/ StartQuizFirstCall
  \/ MarcarMunicipioFirstCall
  \/ SetModoFirstCall
  \/ ResetQuizCall
  \/ SetModoCall
  \/ SetDificultadRetoCall

SpecQuiz == InitQuiz /\ [][NextQuiz]_vars

\* the selection operations, called with ids of the given sets
SetSelectedCommunitiesCall(communityIds) ==
  \E communities \in ListsOver(communityIds) :
    /\ store' = setSelectedCommunities(store, communities)
    /\ UNCHANGED outsideStore

ToggleCommunityCall(communityIds) ==
  \E communityId \in communityIds :
    /\ store' = toggleCommunity(store, communityId)
    /\ UNCHANGED outsideStore

ToggleProvinceCall(provinceIds) ==
  \E provinciaId \in provinceIds :
    /\ store' = toggleProvince(store, provinciaId)
    /\ UNCHANGED outsideStore

SetSelectedProvincesCall(provinceIds) ==
  \E provincias \in ListsOver(provinceIds) :
    /\ store' = setSelectedProvinces(store, provincias)
    /\ UNCHANGED outsideStore

InitSelection ==
  /\ InitColoringIdle
  /\ InitCaches
  /\ InitStrings
  /\ InitStore

\* the selection operations called with any ids
NextSelection ==
  \/ SetSelectedCommunitiesCall(Communities \cup {UnknownCommunity})
  \/ ToggleCommunityCall(Communities \cup {UnknownCommunity})
  \/ ToggleProvinceCall(Provinces \cup {UnknownProvince})
  \/ SetSelectedProvincesCall(Provinces \cup {UnknownProvince})

SpecSelection == InitSelection /\ [][NextSelection]_vars

\* the selection operations called with ids of the data only
NextKnownSelection ==
  \/ SetSelectedCommunitiesCall(Communities)
  \/ ToggleCommunityCall(Communities)
  \/ ToggleProvinceCall(Provinces)
  \/ SetSelectedProvincesCall(Provinces)

SpecKnownSelection == InitSelection /\ [][NextKnownSelection]_vars

\* one quiz from its start: the quiz is started once, in either difficulty
\* setting, and from then on the player clicks municipalities and may switch
\* the difficulty setting; clicks keep arriving
InitQuizRun ==
  /\ InitColoringIdle
  /\ InitCaches
  /\ InitStrings
  /\ InitStore

StartOneQuiz ==
  /\ Len(store.preguntas) = 0
  /\ StartQuizCall

NextQuizRun ==
  \/ StartOneQuiz
  \/ MarcarMunicipioCall
  \/ SetDificultadRetoCall

SpecQuizRun ==
  /\ InitQuizRun
  /\ [][NextQuizRun]_vars
  /\ WF_vars(MarcarMunicipioCall)

\* ------------------------------------------------------------------------
\* Properties
\* ------------------------------------------------------------------------
\* buildAdjacency has returned a graph
AdjacencyBuilt == adjacency.called /\ ~adjacency.threw
Graph == adjacency.value

\* assignColors has returned colorById
Returned == pc = "idle" /\ outcome = "ok"

UniqueIds == Cardinality(Ids(features)) = Len(features)

MaxDegree == Max({Cardinality(Graph[id]) : id \in DOMAIN Graph} \cup {0})

\* two different ids that are neighbours and have the same color
Conflict ==
  \E a \in DOMAIN Graph : \E b \in Graph[a] :
    a # b /\ a \in DOMAIN colorById /\ b \in DOMAIN colorById
          /\ colorById[a] = colorById[b]

\* C1: in the map assignColors returns, two different ids that buildAdjacency
\* reports as neighbours have different colors whenever the palette has more
\* entries than the largest neighbour set.
C1_AdjacentDiffer ==
  (Returned /\ Len(palette) > MaxDegree) => ~Conflict

\* a path of three regions with unique ids, colored with three entries
C1_Witness ==
  /\ Returned /\ UniqueIds /\ revision = "balanced"
  /\ MaxDegree = 2 /\ Len(palette) = 3
  /\ \E a \in DOMAIN Graph : \E b \in Graph[a] : colorById[a] # colorById[b]

\* C2: the keys of the map assignColors returns are exactly the resolved ids
\* of the input features.
C2_KeysAreIds ==
  Returned => (DOMAIN colorById = Ids(features))

\* a list in which two features resolve to the same id
C2_Witness ==
  /\ Returned /\ Len(features) = 3
  /\ Cardinality(DOMAIN colorById) = 2

\* C3: with a palette of at least one entry, every color stored by
\* assignColors, in either revision and on either path, is a palette entry.
C3_ColorsInPalette ==
  Len(palette) >= 1 => \A id \in DOMAIN colorById : colorById[id] \in Range(palette)

\* a returned map in which the fallback made two neighbours share a color
C3_Witness ==
  Returned /\ Len(palette) >= 1 /\ UniqueIds /\ Conflict

\* C4: the graph buildAdjacency returns is symmetric.
C4_Symmetric ==
  AdjacencyBuilt =>
    \A a \in Ids(features) : \A b \in Ids(features) :
      (b \in NeighboursIn(Graph, a)) <=> (a \in NeighboursIn(Graph, b))

C4_Witness ==
  AdjacencyBuilt /\ \E a \in DOMAIN Graph : \E b \in Graph[a] : a # b

\* the features at positions p and q are the only ones with their ids
OnlyOnes(p, q) ==
  /\ IdAt(features, p) # IdAt(features, q)
  /\ \A r \in 1..Len(features) :
       r \notin {p, q} => IdAt(features, r) \notin {IdAt(features, p), IdAt(features, q)}

BoxesApart(p, q) ==
  LET a == BboxByGeometry[features[p].geometry].value
      b == BboxByGeometry[features[q].geometry].value
  IN a.maxX < b.minX \/ a.minX > b.maxX \/ a.maxY < b.minY \/ a.minY > b.maxY

\* C5: two regions whose bounding boxes do not intersect are not neighbours
\* in the graph buildAdjacency returns, also when they have a vertex that is
\* equal after rounding.
C5_BoxesApartNotNeighbours ==
  AdjacencyBuilt =>
    \A p \in 1..Len(features) : \A q \in (p + 1)..Len(features) :
      (OnlyOnes(p, q) /\ BoxesApart(p, q)) =>
        /\ IdAt(features, q) \notin Graph[IdAt(features, p)]
        /\ IdAt(features, p) \notin Graph[IdAt(features, q)]

\* two regions with boxes apart and a vertex that is equal after rounding
C5_Witness ==
  /\ AdjacencyBuilt
  /\ \E p \in 1..Len(features) : \E q \in (p + 1)..Len(features) :
       /\ OnlyOnes(p, q) /\ BoxesApart(p, q)
       /\ ShareByGeometry[features[p].geometry][features[q].geometry].value

\* C6: the graph buildAdjacency returns has an entry for the resolved id of
\* every input feature, and every id in a neighbour set is a key.
C6_EveryIdHasEntry ==
  AdjacencyBuilt =>
    /\ Ids(features) \subseteq DOMAIN Graph
    /\ \A a \in DOMAIN Graph : Graph[a] \subseteq DOMAIN Graph

\* a graph with an empty entry and a non-empty one
C6_Witness ==
  /\ AdjacencyBuilt
  /\ \E a \in DOMAIN Graph : Graph[a] = {}
  /\ \E a \in DOMAIN Graph : Graph[a] # {}

\* the region about to be colored, and the colors of its colored neighbours
NextId == degree[done + 1].id
Forbidden == UsedColors(Graph, colorById, NextId)

\* every palette entry is used by a colored neighbour of the next region
Exhausted ==
  /\ revision = "balanced" /\ pc = "loop" /\ done < Len(degree)
  /\ Len(palette) >= 1
  /\ Range(palette) \subseteq Forbidden

\* the entry with the lowest usage count, the lowest index among equals
LowestUsage ==
  palette[CHOOSE i \in 1..Len(palette) :
            \A j \in 1..Len(palette) :
              \/ usageCount[palette[i]] < usageCount[palette[j]]
              \/ usageCount[palette[i]] = usageCount[palette[j]] /\ i <= j]

\* C7: when every palette entry is used by a colored neighbour of the region
\* being colored, assignColors stores for it the entry with the lowest usage
\* count (lowest index among equals), counts the use, and goes on with the
\* loop.
C7_FallbackLeastUsed ==
  [][Exhausted =>
       /\ pc' = "loop" /\ done' = done + 1
       /\ colorById' = MapSet(colorById, NextId, LowestUsage)
       /\ usageCount' = MapSet(usageCount, LowestUsage, usageCount[LowestUsage] + 1)]_vars

\* the region colored last found every entry used, and a region is left
C7_Witness ==
  /\ revision = "balanced" /\ pc = "loop" /\ UniqueIds
  /\ Len(palette) >= 1 /\ done >= 1 /\ done < Len(degree)
  /\ Range(palette) \subseteq
       {colorById[nb] : nb \in (Graph[degree[done].id] \cap DOMAIN colorById)
                                 \ {degree[done].id}}

Degenerate(p) ==
  features[p].geometry \in
    {"NoGeometry", "NoCoordinates", "EmptyCoordinates", "StringCoordinates"}

\* C9: a feature whose geometry is missing, has no coordinates or has
\* non-numeric coordinates never makes buildAdjacency or assignColors throw,
\* and ends with an empty neighbour set.
C9_DegenerateGeometryTolerated ==
  /\ ~adjacency.threw
  /\ outcome # "threw"
  /\ AdjacencyBuilt =>
       \A p \in 1..Len(features) :
         (Degenerate(p) /\ \A q \in 1..Len(features) :
                             q # p => IdAt(features, q) # IdAt(features, p))
           => Graph[IdAt(features, p)] = {}

\* C10: for an empty feature list buildAdjacency returns an empty graph and
\* assignColors an empty map, and neither throws.
C10_EmptyInput ==
  features = <<>> =>
    /\ ~adjacency.threw
    /\ outcome # "threw"
    /\ adjacency.called => DOMAIN Graph = {}
    /\ DOMAIN colorById = {}
    /\ returned \subseteq {EmptyMap}

C10_Witness ==
  features = <<>> /\ AdjacencyBuilt /\ Returned /\ returned # {}

\* C11: with an empty palette, assignColors over a non-empty feature list
\* does not throw and returns an empty map: no key is stored, in particular
\* no key mapped to undefined.
C11_EmptyPaletteEmptyMap ==
  (Len(palette) = 0 /\ features # <<>>) =>
    /\ outcome # "threw" \/ adjacency.threw
    /\ DOMAIN colorById = {}
    /\ returned \subseteq {EmptyMap}

\* C12: buildAdjacency and assignColors only read their inputs: no step of
\* either changes a feature (id, properties, geometry), the order of the
\* feature list, or the entries and order of PALETTE.
C12_InputsReadOnly ==
  [][features' = features /\ palette' = palette]_vars

\* assignColors has returned after sorting the palette copy into an order
\* that differs from the order of PALETTE
C12_Witness ==
  /\ Returned /\ revision = "balanced" /\ AdjacencyBuilt
  /\ Len(features) >= 2 /\ Len(palette) >= 2
  /\ PaletteByUsage(palette, usageCount) # palette
  /\ palette = PaletteOf(revision, Len(palette))

\* C15: when no two regions are neighbours and the palette has exactly one
\* entry, assignColors gives that entry to every region.
C15_OneEntryForAll ==
  (Returned /\ Len(palette) = 1 /\ \A a \in DOMAIN Graph : Graph[a] = {}) =>
    /\ DOMAIN colorById = Ids(features)
    /\ \A id \in Ids(features) : colorById[id] = palette[1]

\* three regions of which no two are neighbours, colored with one entry
C15_Witness ==
  /\ Returned /\ Len(palette) = 1 /\ revision = "balanced"
  /\ Len(features) = 3 /\ UniqueIds
  /\ \A a \in DOMAIN Graph : Graph[a] = {}
  /\ \E p \in 1..Len(features) : ~Degenerate(p)

\* the list position of the feature that resolves to id
PositionOf(id) == CHOOSE p \in 1..Len(features) : IdAt(features, p) = id

\* C16: assignColors colors the regions in descending order of neighbour-set
\* size, regions of equal size in the order of the input list: the sorted
\* list has that order, and the regions colored so far are its first `done`
\* entries.
C16_DegreeOrder ==
  (outcome \in {"running", "ok"} /\ UniqueIds) =>
    /\ Len(degree) = Len(features)
    /\ \A i \in 1..Len(degree) : degree[i].d = Cardinality(Graph[degree[i].id])
    /\ \A i \in 1..Len(degree) : \A j \in (i + 1)..Len(degree) :
         \/ degree[i].d > degree[j].d
         \/ /\ degree[i].d = degree[j].d
            /\ PositionOf(degree[i].id) < PositionOf(degree[j].id)
    /\ DOMAIN colorById = {degree[i].id : i \in 1..done}

\* two regions colored, one still to color; the list has a region of degree
\* 2 that is not first in the input, and two regions of equal degree
C16_Witness ==
  /\ pc = "loop" /\ UniqueIds /\ Len(degree) = 3 /\ done = 2
  /\ degree[1].d = 2 /\ degree[2].d = 1 /\ degree[3].d = 1
  /\ PositionOf(degree[1].id) = 2

\* a region is about to be colored and some palette entry is not used by
\* its colored neighbours
SomeFree ==
  /\ revision = "balanced" /\ pc = "loop" /\ done < Len(degree)
  /\ \E i \in 1..Len(palette) : palette[i] \notin Forbidden

\* among the entries no colored neighbour uses, the one with the lowest
\* usage count, the lowest index among equals
BestFree ==
  palette[CHOOSE i \in 1..Len(palette) :
            /\ palette[i] \notin Forbidden
            /\ \A j \in 1..Len(palette) :
                 palette[j] \notin Forbidden =>
                   \/ usageCount[palette[i]] < usageCount[palette[j]]
                   \/ usageCount[palette[i]] = usageCount[palette[j]] /\ i <= j]

EarlierNeighbourColors(j) ==
  {colorById[degree[k].id] : k \in {m \in 1..(j - 1) : degree[m].id \in Graph[degree[j].id]}}

\* C18: in the map assignColors returns, two neighbouring regions have the
\* same color only if, when the later-colored of the two was colored, its
\* already-colored neighbours used every palette entry.
C18_ConflictOnlyWhenExhausted ==
  (Returned /\ UniqueIds) =>
    \A i \in 1..Len(degree) : \A j \in (i + 1)..Len(degree) :
      ( /\ degree[i].id \in Graph[degree[j].id]
        /\ colorById[degree[i].id] = colorById[degree[j].id] )
      => Range(palette) \subseteq EarlierNeighbourColors(j)

\* a triangle colored with two entries: the third region shares a color
\* with a neighbour
C18_Witness ==
  /\ Returned /\ UniqueIds /\ Len(palette) = 2 /\ Len(degree) = 3
  /\ \A i \in 1..3 : degree[i].d = 2
  /\ \E i \in 1..2 : colorById[degree[i].id] = colorById[degree[3].id]

\* a coordinate rounded to 6 decimal places, as a number of millionths:
\* a negative value that rounds to zero is zero
RoundedTo6(v) ==
  IF v < 0 THEN -((1 - v) \div 3) ELSE (v + 1) \div 3

\* the vertices of each geometry, rounded
RoundedVertices ==
  [g \in Geometries |->
     {<<RoundedTo6(c[1]), RoundedTo6(c[2])>> :
        c \in Range(shareCollect(CoordinatesOf([geometry |-> g])).value)}]

\* C19: buildAdjacency marks the regions at positions i < j as neighbours
\* exactly when their bounding boxes intersect and they have a vertex whose
\* x and y are equal after rounding each to 6 decimal places.
C19_NeighboursExactly ==
  AdjacencyBuilt =>
    \A p \in 1..Len(features) : \A q \in (p + 1)..Len(features) :
      OnlyOnes(p, q) =>
        LET marked == /\ IdAt(features, q) \in Graph[IdAt(features, p)]
                      /\ IdAt(features, p) \in Graph[IdAt(features, q)]
            unmarked == /\ IdAt(features, q) \notin Graph[IdAt(features, p)]
                        /\ IdAt(features, p) \notin Graph[IdAt(features, q)]
            touching == /\ ~BoxesApart(p, q)
                        /\ RoundedVertices[features[p].geometry]
                             \cap RoundedVertices[features[q].geometry] # {}
        IN IF touching THEN marked ELSE unmarked

\* the first of feature.id, feature.properties.id and the 0-based list
\* position that is neither null nor undefined, as a string
FirstDefinedId(p) ==
  LET f == features[p]
  IN IF f.id.t \notin {"undefined", "null"} THEN String(f.id)
     ELSE IF f.properties.t = "object" /\ f.properties.id.t \notin {"undefined", "null"}
          THEN String(f.properties.id)
          ELSE ToString(p - 1)

\* C20: buildAdjacency and assignColors both resolve the feature at list
\* position i to the first defined of feature.id, feature.properties.id, i,
\* as a string, so every id assignColors iterates over is a key of the graph.
C20_SameIdResolution ==
  LET expected == {FirstDefinedId(p) : p \in 1..Len(features)}
  IN /\ AdjacencyBuilt => DOMAIN Graph = expected
     /\ outcome \in {"running", "ok"} =>
          /\ {degree[i].id : i \in 1..Len(degree)} = expected
          /\ \A i \in 1..Len(degree) : degree[i].id \in DOMAIN Graph

\* the loop runs over a list whose first feature has an id and another
\* properties.id, whose second has only properties.id, and whose third has
\* neither
C20_Witness ==
  /\ pc = "loop" /\ done >= 1 /\ Len(features) = 3
  /\ features[1].id.t = "string" /\ features[1].properties.id.t = "string"
  /\ features[1].id # features[1].properties.id
  /\ features[2].id.t = "null" /\ features[2].properties.id.t = "string"
  /\ Nullish(features[3].id) /\ features[3].properties.t # "object"
  /\ degree[1].id \in DOMAIN Graph

\* the cache of a load, as a mapping
CachedColor(load, id) == MapGet(communityColorCache[load], id)
CachedIds(load) == Keys(communityColorCache[load])

\* the ids of a cache in the order in which they were first asked for
Arrival(load) ==
  [i \in 1..Len(communityColorCache[load]) |-> communityColorCache[load][i].key]

\* C13: the color an id receives does not depend on the order in which the
\* ids are supplied: two loads of the page that were asked for ids in any
\* two orders agree on every id both have colored, and a repeated call
\* returns the color every load has for that id.
C13_OrderIndependent ==
  /\ \A id \in CachedIds("first") \cap CachedIds("second") :
       CachedColor("first", id) = CachedColor("second", id)
  /\ (lastColor.called /\ lastColor.id \notin FalsyIds) =>
       \A load \in Loads :
         lastColor.id \in CachedIds(load) => CachedColor(load, lastColor.id) = lastColor.color

\* muc-1, muc-2, muc-3 were supplied in that order to one load and in the
\* reverse order to the other, and then one of them was asked for again
C13_Witness ==
  /\ Arrival("first") = <<"muc-1", "muc-2", "muc-3">>
  /\ Arrival("second") = <<"muc-3", "muc-2", "muc-1">>
  /\ lastColor.called /\ lastColor.id = "muc-2"

\* the 32-bit hash of an id read as an unsigned number is below another's
HashBelow(a, b) ==
  LET ha == stringHash(CharCodes[a])
      hb == stringHash(CharCodes[b])
  IN ha.hi < hb.hi \/ (ha.hi = hb.hi /\ ha.lo < hb.lo)

\* how many ids of a cache have received a color
TimesUsed(load, color) ==
  Cardinality({id \in CachedIds(load) : CachedColor(load, id) = color})

KnownIndex ==
  ("muc-1" :> 11) @@ ("muc-2" :> 0) @@ ("muc-3" :> 1) @@ ("murcia" :> 11)

RECURSIVE PolynomialUpTo(_, _)
PolynomialUpTo(codes, m) ==
  IF m = 0 THEN [hi |-> 0, lo |-> 0]
  ELSE LET h == PolynomialUpTo(codes, m - 1)
           low == 31 * h.lo + codes[m]
       IN [hi |-> (31 * h.hi + low \div 65536) % 65536, lo |-> low % 65536]

Polynomial(codes) == PolynomialUpTo(codes, Len(codes))

\* C21 as stated: the string hash of every string is the polynomial rolling
\* hash h := h * 31 + charCode, from 0, taken modulo 2^32.
C21_UnsignedPolynomial ==
  hashResult.returned => hashResult.hash = Polynomial(hashedValue)

\* 2^32 - u for 2^31 <= u < 2^32
Complement32(u) ==
  IF u.lo = 0 THEN [hi |-> 65536 - u.hi, lo |-> 0]
  ELSE [hi |-> 65535 - u.hi, lo |-> 65536 - u.lo]

\* C21, amended: with u the polynomial rolling hash h := h * 31 + charCode
\* modulo 2^32, the string hash is u when u < 2^31 and 2^32 - u otherwise:
\* the absolute value of u read as a signed 32-bit number.
C21_AbsOfSignedPolynomial ==
  hashResult.returned =>
    LET u == Polynomial(hashedValue)
    IN hashResult.hash = (IF u.hi < 32768 THEN u ELSE Complement32(u))

\* a string whose polynomial passed 2^32 and ended in the upper half of the
\* 32-bit range has been hashed
C21_Witness ==
  /\ hashResult.returned
  /\ Len(hashedValue) = 7
  /\ Polynomial(hashedValue).hi >= 32768
  /\ hashResult.hash.hi < 32768


\* ------------------------------------------------------------------------
\* The game store: the quiz

\* how many questions of the store are in one of the given estados
NumberWith(estados) ==
  Cardinality({i \in 1..Len(store.preguntas) : store.preguntas[i].estado \in estados})

\* C22: in every state the store reaches by startQuiz, marcarMunicipio,
\* resetQuiz, setModo and setDificultadReto, aciertos is the number of
\* questions with estado 'correcta', fallos the number with estado 'fallida',
\* and their sum the number of questions that are not 'pendiente'.
C22_CountsMatchEstados ==
  /\ store.aciertos = NumberWith({"correcta"})
  /\ store.fallos = NumberWith({"fallida"})
  /\ store.aciertos + store.fallos = Len(store.preguntas) - NumberWith({"pendiente"})

\* a quiz with a right answer, a wrong answer and a question still open
C22_Witness ==
  /\ store.aciertos >= 1
  /\ store.fallos >= 1
  /\ NumberWith({"pendiente"}) >= 1

\* the estado of the question at a 0-based index of the store's list
EstadoAt(index) == store.preguntas[index + 1].estado

\* C23: in every reachable state with a non-empty preguntas list, completado
\* is true exactly when activeIndex is -1; and while completado is false,
\* activeIndex is a valid index, the question there is 'pendiente', every
\* question before it is answered and every question after it is 'pendiente'.
C23_ActiveIndexSplitsTheList ==
  Len(store.preguntas) > 0 =>
    /\ store.completado <=> store.activeIndex = -1
    /\ ~store.completado =>
         /\ HasIndex(store.preguntas, store.activeIndex)
         /\ EstadoAt(store.activeIndex) = "pendiente"
         /\ \A idx \in 0..(Len(store.preguntas) - 1) :
              /\ idx < store.activeIndex => EstadoAt(idx) # "pendiente"
              /\ idx > store.activeIndex => EstadoAt(idx) = "pendiente"

\* a running quiz with an answered question before the active one and a
\* pending question after it
C23_Witness ==
  /\ Len(store.preguntas) = 3
  /\ ~store.completado
  /\ store.activeIndex = 1
  /\ EstadoAt(0) # "pendiente"

\* the quiz has questions and is not completed
Running == Len(store.preguntas) > 0 /\ ~store.completado

\* the number of marcarMunicipio calls that answered a question of this quiz
Answered == Len(store.preguntas) - NumberWith({"pendiente"})

\* one call on a running quiz: it answers exactly the active question, and
\* moves activeIndex one up, or completes the quiz at the last question
AnswersTheActiveQuestion ==
  LET k == store.activeIndex
      N == Len(store.preguntas)
  IN /\ Len(store'.preguntas) = N
     /\ \A i \in 1..N : i # k + 1 => store'.preguntas[i] = store.preguntas[i]
     /\ store.preguntas[k + 1].estado = "pendiente"
     /\ store'.preguntas[k + 1].estado # "pendiente"
     /\ IF k + 1 < N
        THEN store'.activeIndex = k + 1 /\ ~store'.completado
        ELSE store'.activeIndex = -1 /\ store'.completado

\* C24: a quiz started with N >= 1 questions is completed after exactly N
\* marcarMunicipio calls, whatever municipality each call clicks: a running
\* quiz at activeIndex k has had exactly k questions answered, each call
\* answers exactly the active question and moves activeIndex from k to k + 1
\* until the last call sets completado, a completed quiz has all N questions
\* answered; and while clicks keep arriving a started quiz is eventually
\* completed.
C24_CompletedAfterNCalls ==
  /\ [](Running => Answered = store.activeIndex)
  /\ [](store.completado => Answered = Len(store.preguntas))
  /\ [][\A municipioId \in Municipios : \A now \in Times :
          (Running /\ store' = marcarMunicipio(store, municipioId, now))
            => AnswersTheActiveQuestion]_vars
  /\ (Len(store.preguntas) > 0) ~> store.completado

\* a quiz of three questions completed by three clicks, not all of them right
C24_Witness ==
  /\ Len(store.preguntas) = 3
  /\ store.completado
  /\ store.aciertos + store.fallos = 3
  /\ store.fallos >= 1

\* there is no answerable question in the store
NoAnswerableQuestion ==
  \/ Len(store.preguntas) = 0
  \/ store.activeIndex < 0
  \/ store.completado

\* C25: marcarMunicipio leaves the whole store state unchanged when
\* preguntas is empty, activeIndex is negative or completado is true, and,
\* in the first revision of the store, when activa is undefined.
C25_NoAnswerableQuestionNoChange ==
  /\ (storeRevision = "quiz" /\ NoAnswerableQuestion) =>
       \A municipioId \in Municipios : \A now \in Times :
         marcarMunicipio(store, municipioId, now) = store
  /\ (storeRevision = "first" /\ store.activa = Undefined) =>
       \A municipioId \in Municipios :
         marcarMunicipioFirst(store, municipioId) = store

\* a completed quiz of three questions that still shows the feedback of its
\* last answer
C25_Witness ==
  /\ storeRevision = "quiz"
  /\ Len(store.preguntas) = 3
  /\ store.completado
  /\ store.activeIndex = -1
  /\ store.celebration.defined

\* mapaEstados[municipio]
StatusOf(municipio) ==
  IF municipio \in DOMAIN store.mapaEstados THEN store.mapaEstados[municipio] ELSE Undefined

\* C26: during a quiz, after any sequence of marcarMunicipio calls, the
\* target municipality of every answered question has status 'correcta' in
\* mapaEstados.
C26_AnsweredTargetsStayCorrecta ==
  \A i \in 1..Len(store.preguntas) :
    store.preguntas[i].estado # "pendiente"
      => StatusOf(store.preguntas[i].municipioId) = "correcta"

\* what the code does keep: the target of the question answered last is
\* 'correcta', and every answered target has some status
C26_LastTargetCorrecta ==
  \A i \in 1..Len(store.preguntas) :
    store.preguntas[i].estado # "pendiente" =>
      /\ StatusOf(store.preguntas[i].municipioId) \in {"correcta", "fallida"}
      /\ (i = Len(store.preguntas) \/ store.preguntas[i + 1].estado = "pendiente")
           => StatusOf(store.preguntas[i].municipioId) = "correcta"

\* ------------------------------------------------------------------------
\* The game store: the selection

NoDuplicate(array) ==
  \A i, j \in 1..Len(array) : i # j => array[i] # array[j]

\* C27: after any sequence of toggleCommunity, toggleProvince,
\* setSelectedCommunities and setSelectedProvinces calls from the initial
\* state, neither selectedProvinces nor selectedCommunities is empty and
\* neither contains a duplicate.
C27_SelectionsNonEmptyNoDuplicate ==
  /\ Len(store.selectedProvinces) > 0
  /\ Len(store.selectedCommunities) > 0
  /\ NoDuplicate(store.selectedProvinces)
  /\ NoDuplicate(store.selectedCommunities)

\* what the code does keep under any calls: selectedCommunities is never
\* empty and selectedProvinces never holds a duplicate
C27_CommunitiesNonEmptyProvincesNoDuplicate ==
  /\ Len(store.selectedCommunities) > 0
  /\ NoDuplicate(store.selectedProvinces)

\* with ids of the data only, neither list is ever empty
C27_NonEmptyWithKnownIds ==
  /\ Len(store.selectedProvinces) > 0
  /\ Len(store.selectedCommunities) > 0

\* C28: after any sequence of toggleCommunity, toggleProvince,
\* setSelectedCommunities and setSelectedProvinces calls with known province
\* and community ids, the community of every selected province is in
\* selectedCommunities and every selected community has at least one of its
\* provinces in selectedProvinces.
C28_SelectionsConsistent ==
  /\ \A p \in Range(store.selectedProvinces) :
       CommunityOfProvince(p) \in Range(store.selectedCommunities)
  /\ \A c \in Range(store.selectedCommunities) :
       \E p \in Range(store.selectedProvinces) : CommunityOfProvince(p) = c

\* a community selected through only one of its two provinces, next to
\* another community
C28_Witness ==
  /\ Range(store.selectedCommunities) = {"castilla-la-mancha", "extremadura"}
  /\ Range(store.selectedProvinces) = {"toledo", "badajoz", "caceres"}

\* ------------------------------------------------------------------------
\* The themed color caches

\* the color a call computes when every cache is empty
FromEmptyCache(division, id, theme) ==
  IF division = "province" THEN colorForProvinceThemed(NewCaches, id, theme).color
  ELSE colorForCommunityThemed(NewCaches, id, theme).color

\* every entry of the caches is still there with its color
EntriesKept(caches) ==
  \A theme \in Themes : \A key \in Keys(caches[theme]) :
    /\ MapHas(caches'[theme], key)
    /\ MapGet(caches'[theme], key) = MapGet(caches[theme], key)

\* the cache the last call went through
CacheOfLast ==
  IF lastThemed.division = "province" THEN provinceColorCache
  ELSE themedCommunityColorCache

\* C29: after any sequence of colorForProvince / colorForCommunity calls in
\* any order, the color returned for (id, theme) is the color computed from
\* the hash with an empty cache; an entry of a cache never changes once
\* written; and a call reads and writes the cache of its own theme only, so
\* that the entry of the other theme, where there is one, is not what it
\* returns unless both themes compute the same color.
C29_CachesTransparent ==
  /\ [](lastThemed.called =>
         lastThemed.color = FromEmptyCache(lastThemed.division, lastThemed.id, lastThemed.theme))
  /\ [][EntriesKept(provinceColorCache) /\ EntriesKept(themedCommunityColorCache)]_vars
  /\ [](lastThemed.called /\ lastThemed.id \notin FalsyIds =>
         /\ MapGet(CacheOfLast[lastThemed.theme], lastThemed.id) = lastThemed.color
         /\ \A other \in Themes \ {lastThemed.theme} :
              MapHas(CacheOfLast[other], lastThemed.id) =>
                MapGet(CacheOfLast[other], lastThemed.id)
                  = FromEmptyCache(lastThemed.division, lastThemed.id, other))

\* a province answered from the cache of the dark theme while the cache of
\* the light theme holds another color for it, and the community cache holds
\* the same id
C29_Witness ==
  /\ lastThemed.called
  /\ lastThemed.division = "province"
  /\ lastThemed.theme = "oscuro"
  /\ lastThemed.id = "murcia"
  /\ MapHas(provinceColorCache["claro"], "murcia")
  /\ MapGet(provinceColorCache["claro"], "murcia") # lastThemed.color
  /\ MapHas(themedCommunityColorCache["oscuro"], "murcia")
  /\ Len(provinceColorCache["oscuro"]) = 2

\* ------------------------------------------------------------------------
\* The map view in 'colorido' mode

\* C30: for every feature drawn in 'colorido' mode, the id the map view
\* looks the fill up with is the id under which assignColors stored the
\* feature's color, so the fill is the assigned color and never the uniform
\* fill.
C30_LookupIdIsStoredId ==
  Returned =>
    \A p \in 1..Len(features) :
      /\ MunicipioIdOf(features[p]) = ColoringId(features[p], p - 1)
      /\ MunicipioIdOf(features[p]) \in DOMAIN colorById
      /\ ColoridoFill(colorById, features[p]) = colorById[ColoringId(features[p], p - 1)]
      /\ ColoridoFill(colorById, features[p]) # uniformFill

\* what the code does keep: a feature with exactly one of feature.id and
\* properties.id defined is looked up under the id its color is stored with
C30_AgreeWithOneIdDefined ==
  Returned =>
    \A p \in 1..Len(features) :
      (Nullish(features[p].id) # Nullish(PropertiesId(features[p]))) =>
        /\ MunicipioIdOf(features[p]) = ColoringId(features[p], p - 1)
        /\ Len(palette) > 0 =>
             /\ ColoridoFill(colorById, features[p])
                  = colorById[ColoringId(features[p], p - 1)]
             /\ ColoridoFill(colorById, features[p]) # uniformFill

====
